---- MODULE Spec2Model ----
(***************************************************************************)
(* Model of GTC's UncertainArray (src/GTC/uncertain_array.py): the         *)
(* elementwise dispatch engine (__array_ufunc__), result materialization   *)
(* (_create_empty), the accessor facade and the reduction facade.          *)
(*                                                                         *)
(* The state is one UncertainArray object `self` (its shape, its elements, *)
(* its label and its _broadcasted_shape scratch attribute), the call the   *)
(* caller has just made on it (`call`) and what that call returned or      *)
(* raised (`out`).  The caller drops a result before it makes a new call.  *)
(* `warned` counts the warnings that call emitted through warnings.warn.   *)
(***************************************************************************)
EXTENDS Integers, Sequences, FiniteSets, TLC

VARIABLES self, call, out, warned

vars == <<self, call, out, warned>>

(***************************************************************************)
(* Bounds of the model.                                                    *)
(***************************************************************************)
\* largest size of one axis of a generated input array
MaxDim == 2
\* longest sequence of labels handed to _intermediate
MaxLabels == 3
\* an input array of more than one element starts at one of the first
\* MaxStart positions of the element pool
MaxStart == 2

(***************************************************************************)
(* Elements.  An element is a plain number (t = "num"), an uncertain real  *)
(* number (t = "ureal", value x/q with standard uncertainty u), a Python   *)
(* bool (t = "bool", x = 1 for True), a slot of a buffer that np.empty     *)
(* allocated and nothing wrote (t = "unset"), or the result of a scalar    *)
(* function of GTC.core / GTC.lib kept as a term (t = "app").  c is the    *)
(* class of the value: finite, NaN, +inf or -inf.                          *)
(***************************************************************************)
Elem(t, c, x, q, u, f, args) ==
    [t |-> t, c |-> c, x |-> x, q |-> q, u |-> u, f |-> f, args |-> args]

Num(x) == Elem("num", "fin", x, 1, 0, "", <<>>)
NaN == Elem("num", "nan", 0, 1, 0, "", <<>>)
Inf == Elem("num", "inf", 0, 1, 0, "", <<>>)
NegInf == Elem("num", "ninf", 0, 1, 0, "", <<>>)
UReal(x, u) == Elem("ureal", "fin", x, 1, u, "", <<>>)
Bool(b) == Elem("bool", "fin", IF b THEN 1 ELSE 0, 1, 0, "", <<>>)
Unset == Elem("unset", "fin", 0, 1, 0, "", <<>>)
App(f, args) == Elem("app", "fin", 0, 1, 0, f, args)
\* a Python string, e.g. a label
Str(text) == Elem("str", "fin", 0, 1, 0, text, <<>>)

Abs(n) == IF n < 0 THEN -n ELSE n

RECURSIVE Gcd(_, _)
Gcd(m, n) == IF n = 0 THEN m ELSE Gcd(n, m % n)

\* a number x/q in lowest terms (q > 0), as Python's float/int value
Ratio(t, x, q, u) ==
    LET g == Gcd(Abs(x), q)
    IN  Elem(t, "fin", x \div g, q \div g, u, "", <<>>)

IsUncertain(e) == e.t = "ureal"

\* GTC.core.value
value(e) ==
    IF e.t = "ureal" THEN Elem("num", e.c, e.x, e.q, 0, "", <<>>) ELSE e

\* GTC.core.uncertainty
uncertainty(e) == IF e.t = "ureal" THEN Num(e.u) ELSE Num(0)

\* GTC.core.variance
variance(e) == IF e.t = "ureal" THEN Num(e.u * e.u) ELSE Num(0)

\* GTC.core.dof
dof(e) == Inf

\* math.isnan / cmath.isnan of value(number)
isnan(e) == value(e).c = "nan"

\* math.isinf / cmath.isinf of value(number)
isinf(e) == value(e).c \in {"inf", "ninf"}

\* bool(item)
Truthy(e) == ~(e.c = "fin" /\ e.x = 0) /\ e.t # "unset"

\* a < b on the values, as Python compares floats: false when either is NaN
Less(a, b) ==
    LET va == value(a)
        vb == value(b)
    IN  CASE va.c = "nan" \/ vb.c = "nan" -> FALSE
          [] va.c = "ninf" -> vb.c # "ninf"
          [] va.c = "inf" -> FALSE
          [] vb.c = "inf" -> TRUE
          [] vb.c = "ninf" -> FALSE
          [] OTHER -> va.x * vb.q < vb.x * va.q

\* a == b on the values: false when either is NaN
Equal(a, b) ==
    LET va == value(a)
        vb == value(b)
    IN  CASE va.c = "nan" \/ vb.c = "nan" -> FALSE
          [] va.c # "fin" \/ vb.c # "fin" -> va.c = vb.c
          [] OTHER -> va.x * vb.q = vb.x * va.q

\* the class of a sum of two values
AddClass(ca, cb) ==
    CASE ca = "nan" \/ cb = "nan" -> "nan"
      [] ca = "fin" -> cb
      [] cb = "fin" -> ca
      [] ca = cb -> ca
      [] OTHER -> "nan"

\* a + b.  The element pool holds one uncertain number, so two uncertain
\* operands are the same influence and their uncertainties add linearly.
ScalarAdd(a, b) ==
    LET t == IF IsUncertain(a) \/ IsUncertain(b) THEN "ureal" ELSE "num"
        c == AddClass(a.c, b.c)
    IN  IF c = "fin"
        THEN Ratio(t, a.x * b.q + b.x * a.q, a.q * b.q, a.u + b.u)
        ELSE Elem(t, c, 0, 1, a.u + b.u, "", <<>>)

\* -a
ScalarNeg(a) ==
    CASE a.c = "inf" -> [a EXCEPT !.c = "ninf"]
      [] a.c = "ninf" -> [a EXCEPT !.c = "inf"]
      [] OTHER -> [a EXCEPT !.x = -a.x]

\* a - b
ScalarSub(a, b) == ScalarAdd(a, ScalarNeg(b))

\* abs(a)
ScalarAbs(a) ==
    CASE a.c = "ninf" -> [a EXCEPT !.c = "inf"]
      [] OTHER -> [a EXCEPT !.x = Abs(a.x)]

\* total / n, the division numpy's mean ends with
DivInt(a, n) ==
    IF a.c = "fin" THEN Ratio(a.t, a.x, a.q * n, a.u) ELSE a

(***************************************************************************)
(* Shapes and numpy broadcasting.  A shape is a tuple of axis sizes; items *)
(* are kept flattened in C order, as ndarray.flat yields them.             *)
(***************************************************************************)
RECURSIVE Size(_)
Size(shape) == IF shape = <<>> THEN 1 ELSE Head(shape) * Size(Tail(shape))

Max(m, n) == IF m >= n THEN m ELSE n

\* shape with leading axes of size 1 so that it has n axes
Pad(shape, n) ==
    [j \in 1..n |-> IF j <= n - Len(shape) THEN 1 ELSE shape[j - (n - Len(shape))]]

\* numpy's rule: aligned from the last axis, sizes are equal or one of them is 1
BroadcastOK(s1, s2) ==
    LET n == Max(Len(s1), Len(s2))
        p1 == Pad(s1, n)
        p2 == Pad(s2, n)
    IN  \A j \in 1..n : p1[j] = p2[j] \/ p1[j] = 1 \/ p2[j] = 1

\* np.broadcast(a, b).shape
BroadcastShape(s1, s2) ==
    LET n == Max(Len(s1), Len(s2))
        p1 == Pad(s1, n)
        p2 == Pad(s2, n)
    IN  [j \in 1..n |-> IF p1[j] = 1 THEN p2[j] ELSE p1[j]]

\* the coordinate on axis j of the k-th element (k from 0) of a C-order shape
Coord(k, shape, j) == (k \div Size(SubSeq(shape, j + 1, Len(shape)))) % shape[j]

\* the flat position (from 0) in an array of shape `shape` that the k-th
\* element of the broadcast shape `bs` reads: an axis of size 1 is replicated
SourceIndex(k, shape, bs) ==
    LET n == Len(bs)
        p == Pad(shape, n)
        RECURSIVE Ravel(_)
        Ravel(j) ==
            IF j = 0 THEN 0
            ELSE Ravel(j - 1) * p[j] + (IF p[j] = 1 THEN 0 ELSE Coord(k, bs, j))
    IN  Ravel(n)

\* what np.broadcast(...).iters[i] yields for an input of the given shape
BroadcastItems(shape, items, bs) ==
    [k \in 1..Size(bs) |-> items[SourceIndex(k - 1, shape, bs) + 1]]

(***************************************************************************)
(* Arrays, operands and results.                                           *)
(***************************************************************************)
\* an optional value: <<>> is Python's None, <<v>> is v
None == <<>>
Some(v) == <<v>>

\* an UncertainArray or a plain numpy.ndarray object
Array(cls, dtype, shape, items, label) ==
    [cls |-> cls, dtype |-> dtype, shape |-> shape, items |-> items,
     label |-> label, bshape |-> None]

\* the absent second input of a one-input call
NoOperand == Array("none", "object", <<>>, <<Unset>>, None)

\* what a call hands back: a bare scalar, an array, or an exception
Bare(e) ==
    [kind |-> "bare", cls |-> "scalar", dtype |-> "object", shape |-> <<>>,
     items |-> <<e>>, label |-> None, err |-> ""]

Returned(cls, dtype, shape, items, label) ==
    [kind |-> "array", cls |-> cls, dtype |-> dtype, shape |-> shape,
     items |-> items, label |-> label, err |-> ""]

Raised(err) ==
    [kind |-> "error", cls |-> "none", dtype |-> "object", shape |-> <<>>,
     items |-> <<>>, label |-> None, err |-> err]

NoResult ==
    [kind |-> "none", cls |-> "none", dtype |-> "object", shape |-> <<>>,
     items |-> <<>>, label |-> None, err |-> ""]

\* an input as a handler receives it: an ndarray (nd) or, after
\* broadcasting, a flat iterator over the broadcast elements
View(nd, shape, items) == [nd |-> nd, shape |-> shape, items |-> items]

ArrayView(a) == View(TRUE, a.shape, a.items)

\* itemset(i, v) on a buffer of the given dtype converts v to that dtype
Cast(dtype, v) == IF dtype = "bool" THEN Bool(Truthy(v)) ELSE v

\* UncertainArray._create_empty: the shape of the buffer np.empty allocates
EmptyShape(s) == IF s.bshape = None THEN s.shape ELSE s.bshape[1]

\* variant: the two streams zipped in the wrong order
ZipSwapped(xs, ys) ==
    [i \in 1..(IF Len(xs) <= Len(ys) THEN Len(xs) ELSE Len(ys)) |-> <<ys[i], xs[i]>>]

\* zip of two streams stops with the shorter
Zip(xs, ys) ==
    [i \in 1..(IF Len(xs) <= Len(ys) THEN Len(xs) ELSE Len(ys)) |-> <<xs[i], ys[i]>>]

Singles(xs) == [i \in 1..Len(xs) |-> <<xs[i]>>]

\* UncertainArray._create_empty: the iteration source over the inputs;
\* inputs = <<>> stands for inputs=None.  A flat iterator has no .flat.
EmptyIterator(s, inputs) ==
    CASE Len(inputs) = 0 -> [err |-> "", tuples |-> Singles(s.items)]
      [] Len(inputs) = 1 -> [err |-> "", tuples |-> Singles(inputs[1].items)]
      [] inputs[1].nd ->
            IF inputs[2].nd
            THEN [err |-> "", tuples |-> Zip(inputs[1].items, inputs[2].items)]
            ELSE [err |-> "AttributeError", tuples |-> <<>>]
      [] OTHER -> [err |-> "", tuples |-> Zip(inputs[1].items, inputs[2].items)]

\* the buffer after `for i, item in enumerate(iterator): itemset(i, f(item))`:
\* slots nothing wrote keep what np.empty left there
Filled(shape, dtype, vals) ==
    [i \in 1..Size(shape) |-> IF i <= Len(vals) THEN Cast(dtype, vals[i]) ELSE Unset]

(***************************************************************************)
(* The one-input handlers of UncertainArray.                               *)
(***************************************************************************)
\* the ufuncs of one input for which UncertainArray defines '_' + name
Transcendental ==
    {"exp", "log", "log10", "sqrt", "cos", "sin", "tan", "arccos", "arcsin",
     "arctan", "sinh", "cosh", "tanh", "arccosh", "arcsinh", "arctanh", "square"}

Predicates == {"isinf", "isnan", "isfinite"}

UnaryNames ==
    Transcendental \cup Predicates
        \cup {"conjugate", "positive", "negative", "logical_not", "reciprocal", "absolute"}

\* the GTC.core function a transcendental handler applies
CoreName(name) ==
    CASE name = "arccos" -> "acos"
      [] name = "arcsin" -> "asin"
      [] name = "arctan" -> "atan"
      [] name = "arccosh" -> "acosh"
      [] name = "arcsinh" -> "asinh"
      [] name = "arctanh" -> "atanh"
      [] name = "square" -> "mag_squared"
      [] OTHER -> name

\* not (_isnan(item) or _isinf(item))
IsFinite(e) == ~(isnan(e) \/ isinf(e))

\* what the loop body of a one-input handler stores for an element
ElementOp(name, e) ==
    CASE name \in Transcendental -> App(CoreName(name), <<e>>)
      [] name = "conjugate" -> App("conjugate", <<e>>)
      [] name = "positive" -> e
      [] name = "negative" -> ScalarNeg(e)
      [] name = "reciprocal" -> App("truediv", <<Num(1), e>>)
      [] name = "absolute" -> ScalarAbs(e)
      [] name = "isinf" -> Bool(isinf(e))
      [] name = "isnan" -> Bool(isnan(e))
      [] name = "isfinite" -> Bool(IsFinite(e))
      [] name = "logical_not" -> Bool(~Truthy(e))

\* variant: the 0-dimensional branch applying the test of the loop body
ZeroDimOpAsInLoop(name, e) == ElementOp(name, e)

\* what the `if self.shape == ()` / `if self.ndim == 0` branch of a
\* one-input handler returns for the sole element
ZeroDimOp(name, e) ==
    IF name = "isfinite" THEN Bool(isinf(e)) ELSE ElementOp(name, e)

\* the handlers that have a 0-dimensional branch (_logical_not has none)
HasZeroDimBranch(name) == name # "logical_not"

(***************************************************************************)
(* The two-input handlers of UncertainArray.                               *)
(***************************************************************************)
Arithmetic == {"add", "subtract", "multiply", "divide", "true_divide", "power"}

Comparisons == {"equal", "not_equal", "less", "less_equal", "greater", "greater_equal"}

BinaryNames ==
    Arithmetic \cup Comparisons
        \cup {"arctan2", "maximum", "minimum", "logical_and", "logical_or", "logical_xor"}

\* the Python expression on a pair that a handler's 0-dimensional branch
\* returns and that its loop body stores (maximum and minimum apart)
PairOp(name, a, b) ==
    CASE name = "add" -> ScalarAdd(a, b)
      [] name = "subtract" -> ScalarSub(a, b)
      [] name = "multiply" -> App("mul", <<a, b>>)
      [] name \in {"divide", "true_divide"} -> App("truediv", <<a, b>>)
      [] name = "power" -> App("pow", <<a, b>>)
      [] name = "arctan2" -> App("atan2", <<a, b>>)
      [] name = "equal" -> Bool(Equal(a, b))
      [] name = "not_equal" -> Bool(~Equal(a, b))
      [] name = "less" -> Bool(Less(a, b))
      [] name = "less_equal" -> Bool(Less(a, b) \/ Equal(a, b))
      [] name = "greater" -> Bool(Less(b, a))
      [] name = "greater_equal" -> Bool(Less(b, a) \/ Equal(a, b))
      [] name = "logical_and" -> IF Truthy(a) THEN b ELSE a
      [] name = "logical_or" -> IF Truthy(a) THEN a ELSE b

\* _maximum / _minimum, 0-dimensional branch: a if a > b else b
ZeroDimExtremum(name, a, b) ==
    IF name = "maximum"
    THEN IF Less(b, a) THEN a ELSE b
    ELSE IF Less(a, b) THEN a ELSE b

\* variant: a loop body that skips a NaN operand instead of storing it
ElementExtremumSkippingNaN(name, a, b) ==
    CASE isnan(a) -> b
      [] isnan(b) -> a
      [] OTHER -> ZeroDimExtremum(name, a, b)

\* _maximum / _minimum, loop body
ElementExtremum(name, a, b) ==
    CASE isnan(a) -> a
      [] isnan(b) -> b
      [] OTHER -> ZeroDimExtremum(name, a, b)

ZeroDimPair(name, a, b) ==
    IF name \in {"maximum", "minimum"} THEN ZeroDimExtremum(name, a, b) ELSE PairOp(name, a, b)

ElementPair(name, a, b) ==
    IF name \in {"maximum", "minimum"} THEN ElementExtremum(name, a, b) ELSE PairOp(name, a, b)

AccessorNames == {"real", "imag", "r", "value", "uncertainty", "variance", "dof"}

\* the scalar accessor applied to an element
AccessorOp(name, e) ==
    CASE name = "value" -> value(e)
      [] name = "uncertainty" -> uncertainty(e)
      [] name = "variance" -> variance(e)
      [] name = "dof" -> dof(e)
      [] OTHER -> App(name, <<e>>)

\* what a handler's loop stores for the tuple t its iterator yields: body
\* names the kind of handler, name the operation
LoopBody(body, name, t) ==
    CASE body = "one" -> ElementOp(name, t[1])
      [] body = "two" -> ElementPair(name, t[1], t[2])
      [] body = "accessor" -> AccessorOp(name, t[1])
      [] body = "copy" -> t[1]
      [] body = "round" -> App("round", <<t[1]>>)
      [] body = "result" -> App("result", <<t[1]>>)
      [] body = "labelled" -> App("result", <<t[1], t[2]>>)
      [] body = "reporting" -> App(name, <<t[1], t[2]>>)

\* a handler's array path: allocate, fill, and wrap the buffer (cls "uarray")
\* or return it bare (cls "ndarray")
Materialize(s, inputs, dtype, cls, body, name) ==
    LET it == EmptyIterator(s, inputs)
        shape == EmptyShape(s)
    IN  CASE it.err # "" -> Raised(it.err)
          [] Len(it.tuples) > Size(shape) -> Raised("IndexError")
          [] OTHER ->
                Returned(cls, dtype, shape,
                         Filled(shape, dtype,
                                [i \in 1..Len(it.tuples) |-> LoopBody(body, name, it.tuples[i])]),
                         None)

\* _conjugate ... _absolute: attr(*inputs) with inputs = (self,)
UnaryHandler(s, name, inputs) ==
    CASE HasZeroDimBranch(name) /\ s.shape = <<>> -> Bare(ZeroDimOp(name, s.items[1]))
      [] name \in Predicates \cup {"logical_not"} ->
            Materialize(s, inputs, "bool", "ndarray", "one", name)
      [] name \in {"reciprocal", "absolute"} ->
            Materialize(s, inputs, "object", "uarray", "one", name)
      [] OTHER -> Materialize(s, <<>>, "object", "uarray", "one", name)

\* _atan2(self, x): the first operand is always self
Atan2Handler(s, x) ==
    IF s.shape = <<>>
    THEN IF x.nd THEN Bare(PairOp("arctan2", s.items[1], x.items[1]))
         ELSE Raised("AttributeError")
    ELSE Materialize(s, <<ArrayView(s), x>>, "object", "uarray", "two", "arctan2")

\* _add ... _logical_xor: attr(*inputs) with the two coerced inputs.  On the
\* 0-dimensional branch each input must have .item, which a flat iterator
\* of np.broadcast has not.
BinaryHandler(s, name, inputs) ==
    CASE name = "logical_xor" -> Raised("TypeError")
      [] name = "arctan2" -> Atan2Handler(s, inputs[2])
      [] s.shape = <<>> ->
            IF inputs[1].nd /\ inputs[2].nd
            THEN Bare(ZeroDimPair(name, inputs[1].items[1], inputs[2].items[1]))
            ELSE Raised("AttributeError")
      [] name \in Comparisons -> Materialize(s, inputs, "bool", "ndarray", "two", name)
      [] OTHER -> Materialize(s, inputs, "object", "uarray", "two", name)

(***************************************************************************)
(* UncertainArray.__array_ufunc__                                          *)
(***************************************************************************)
IsNdarray(x) == x.cls \in {"uarray", "ndarray"}

\* variant: a single number made a 0-dimensional array of its own
CoerceToZeroDim(x, keep) ==
    IF IsNdarray(x) THEN ArrayView(x) ELSE View(TRUE, x.shape, x.items)

\* lines 162-172: the input that is not an ndarray becomes one; a single
\* number or uncertain number fills the shape of the other input
Coerce(x, keep) ==
    CASE IsNdarray(x) -> ArrayView(x)
      [] x.cls = "scalar" -> View(TRUE, keep.shape, [i \in 1..Size(keep.shape) |-> x.items[1]])
      [] OTHER -> View(TRUE, x.shape, x.items)

\* getattr(self, '_' + ufunc.__name__) finds a handler
HasHandler(name) == name \in UnaryNames \cup BinaryNames

\* `if kwargs: warnings.warn(...)`: the number of warnings emitted
Warnings(kwargs) == IF kwargs THEN 1 ELSE 0

\* variant: inputs whose shapes cannot be aligned handed on as they are
PrepareUnchecked(inputs) ==
    LET v1 == Coerce(inputs[1], inputs[2])
        v2 == Coerce(inputs[2], inputs[1])
        bs == BroadcastShape(v1.shape, v2.shape)
    IN  IF v1.shape = v2.shape \/ ~BroadcastOK(v1.shape, v2.shape)
        THEN [err |-> "", views |-> <<v1, v2>>, bshape |-> None]
        ELSE [err |-> "",
              views |-> <<View(FALSE, bs, BroadcastItems(v1.shape, v1.items, bs)),
                          View(FALSE, bs, BroadcastItems(v2.shape, v2.items, bs))>>,
              bshape |-> Some(bs)]

\* lines 159-178: the two inputs as the handler receives them and the value
\* left in self._broadcasted_shape; np.broadcast raises ValueError for
\* shapes that cannot be aligned
Prepare(inputs) ==
    LET v1 == Coerce(inputs[1], inputs[2])
        v2 == Coerce(inputs[2], inputs[1])
        bs == BroadcastShape(v1.shape, v2.shape)
    IN  CASE v1.shape = v2.shape -> [err |-> "", views |-> <<v1, v2>>, bshape |-> None]
          [] ~BroadcastOK(v1.shape, v2.shape) ->
                [err |-> "ValueError", views |-> <<>>, bshape |-> None]
          [] OTHER ->
                [err |-> "",
                 views |-> <<View(FALSE, bs, BroadcastItems(v1.shape, v1.items, bs)),
                             View(FALSE, bs, BroadcastItems(v2.shape, v2.items, bs))>>,
                 bshape |-> Some(bs)]

\* variant: the two-input branch keeping the scratch shape when the inputs'
\* shapes are equal, instead of clearing it first
InvokeWithoutClearing(s, name, inputs, kwargs) ==
    IF Len(inputs) = 1
    THEN [out |-> UnaryHandler(s, name, <<ArrayView(inputs[1])>>), bshape |-> s.bshape,
          warned |-> Warnings(kwargs)]
    ELSE LET p == Prepare(inputs)
             kept == IF p.err = "" /\ p.bshape = None THEN s.bshape ELSE p.bshape
         IN  [out |-> IF p.err # "" THEN Raised(p.err)
                      ELSE BinaryHandler([s EXCEPT !.bshape = kept], name, p.views),
              bshape |-> kept, warned |-> Warnings(kwargs)]

\* lines 152-183, once the handler was found: what the call returns or
\* raises, the value it leaves in self._broadcasted_shape, and the number
\* of warnings it emits
Invoke(s, name, inputs, kwargs) ==
    IF Len(inputs) = 1
    THEN [out |-> UnaryHandler(s, name, <<ArrayView(inputs[1])>>), bshape |-> s.bshape,
          warned |-> Warnings(kwargs)]
    ELSE LET p == Prepare(inputs)
         IN  [out |-> IF p.err # "" THEN Raised(p.err)
                      ELSE BinaryHandler([s EXCEPT !.bshape = p.bshape], name, p.views),
              bshape |-> p.bshape, warned |-> Warnings(kwargs)]

\* variant: the handler looked up only after the inputs were coerced and
\* broadcast
ArrayUfuncLookupLast(s, name, inputs, kwargs) ==
    CASE HasHandler(name) -> Invoke(s, name, inputs, kwargs)
      [] Len(inputs) = 1 ->
            [out |-> Raised("NotImplementedError"), bshape |-> s.bshape,
             warned |-> Warnings(kwargs)]
      [] OTHER ->
            LET p == Prepare(inputs)
            IN  [out |-> Raised(IF p.err # "" THEN p.err ELSE "NotImplementedError"),
                 bshape |-> p.bshape, warned |-> Warnings(kwargs)]

\* variant: a call with keyword options refused instead of warned about
ArrayUfuncRefusingOptions(s, name, inputs, kwargs) ==
    CASE ~HasHandler(name) ->
            [out |-> Raised("NotImplementedError"), bshape |-> s.bshape, warned |-> 0]
      [] kwargs -> [out |-> Raised("TypeError"), bshape |-> s.bshape, warned |-> 0]
      [] OTHER -> Invoke(s, name, inputs, kwargs)

\* variant: the dispatching array reshaped to the broadcast shape
AfterCallReshaped(s, bshape) ==
    IF bshape = None THEN [s EXCEPT !.bshape = bshape]
    ELSE [s EXCEPT !.bshape = bshape, !.shape = bshape[1],
                   !.items = BroadcastItems(s.shape, s.items, bshape[1])]

\* the dispatching array after a call: _broadcasted_shape (lines 174, 178)
\* is the only attribute a call assigns
AfterCall(s, bshape) == [s EXCEPT !.bshape = bshape]

\* the dispatcher: the handler is looked up before anything else
ArrayUfunc(s, name, inputs, kwargs) ==
    IF ~HasHandler(name)
    THEN [out |-> Raised("NotImplementedError"), bshape |-> s.bshape, warned |-> 0]
    ELSE Invoke(s, name, inputs, kwargs)


(***************************************************************************)
(* The accessor facade and the methods that build an array from self.      *)
(***************************************************************************)
\* real, imag, r, value(dtype), uncertainty(dtype), variance(dtype), dof(dtype)
Accessor(s, name, dtype) ==
    LET dt == CASE name = "r" -> "float"
                [] name \in {"real", "imag"} -> "object"
                [] OTHER -> dtype
    IN  IF s.shape = <<>>
        THEN Bare(AccessorOp(name, s.items[1]))
        ELSE Materialize(s, <<>>, dt, "uarray", "accessor", name)

\* the attributes x, u, v, df and the method each of them calls
AttributeNames == {"x", "u", "v", "df"}

AttributeCalls(name) ==
    CASE name = "x" -> "value"
      [] name = "u" -> "uncertainty"
      [] name = "v" -> "variance"
      [] name = "df" -> "dof"

\* variant: the attribute asking for a float array
AttributeAsFloat(s, name) == Accessor(s, AttributeCalls(name), "float")

\* x, u, v, df: return self.value(), self.uncertainty(), ... with no dtype,
\* which _create_empty takes as object
Attribute(s, name) == Accessor(s, AttributeCalls(name), "object")

\* self.real(dtype), self.imag(dtype), self.r(dtype): real, imag and r are
\* properties only, so the property is evaluated and its value, an array or
\* a number, is then called
CallProperty(s, name, dtype) ==
    LET got == Accessor(s, name, "object")
    IN  IF got.kind = "error" THEN got ELSE Raised("TypeError")

\* copy(): +item for every element, the label kept
Copy(s) ==
    LET r == Materialize(s, <<>>, "object", "uarray", "copy", "copy")
    IN  IF r.kind = "array" THEN [r EXCEPT !.label = s.label] ELSE r

\* round(): item._round(...) or round(item, digits) for every element
Round(s) == Materialize(s, <<>>, "object", "uarray", "round", "round")

(***************************************************************************)
(* Intermediate results and the reporting accessors.                       *)
(***************************************************************************)
\* GTC.is_sequence: a list, a tuple or an ndarray, not a string
is_sequence(x) == x.cls \in {"list", "uarray", "ndarray"}

\* "{}[{}]".format(labels, i)
Format(label, i) == Str(label.f \o "[" \o ToString(i) \o "]")

\* variant: the index notation counted from 1
LabelArrayFromOne(s, labels) ==
    IF Size(s.shape) > 1 /\ ~is_sequence(labels)
    THEN View(TRUE, <<Size(s.shape)>>,
              [i \in 1..Size(s.shape) |-> Format(labels.items[1], i)])
    ELSE View(TRUE, labels.shape, labels.items)

\* _intermediate, lines 811-818: the labels as an ndarray; one label for
\* an array of more than one element becomes label[0], label[1], ...
LabelArray(s, labels) ==
    IF Size(s.shape) > 1 /\ ~is_sequence(labels)
    THEN View(TRUE, <<Size(s.shape)>>,
              [i \in 1..Size(s.shape) |-> Format(labels.items[1], i - 1)])
    ELSE View(TRUE, labels.shape, labels.items)

\* _intermediate(labels); labels of class "none" is labels=None
Intermediate(s, labels) ==
    CASE labels.cls = "none" /\ s.shape = <<>> -> Bare(App("result", <<s.items[1]>>))
      [] labels.cls = "none" -> Materialize(s, <<>>, "object", "uarray", "result", "result")
      [] s.shape = <<>> ->
            Bare(App("result", <<s.items[1], LabelArray(s, labels).items[1]>>))
      [] OTHER ->
            Materialize(s, <<ArrayView(s), LabelArray(s, labels)>>, "object", "uarray",
                        "labelled", "result")

\* sensitivity(x) / u_component(x): x is made an ndarray with np.asarray
\* and zipped with self
Reporting(s, name, x) ==
    IF s.shape = <<>>
    THEN Bare(App(name, <<s.items[1], x.items[1]>>))
    ELSE Materialize(s, <<ArrayView(s), View(TRUE, x.shape, x.items)>>, "object", "uarray",
                     "reporting", name)

(***************************************************************************)
(* Construction and views.                                                 *)
(***************************************************************************)
\* np.asarray(array, dtype=dtype) on one element of a sequence of plain
\* numbers and bools
Convert(dtype, e) ==
    CASE dtype = "float" /\ e.t = "bool" -> Num(e.x)
      [] OTHER -> e

\* variant: the caller's dtype used whenever one is given
NewHonouringHint(array, hint, label) ==
    LET dtype == CASE hint # None -> hint[1]
                   [] array.cls = "ndarray" -> array.dtype
                   [] OTHER -> "object"
    IN  Returned("uarray", dtype, array.shape,
                 [i \in 1..Len(array.items) |-> Convert(dtype, array.items[i])], label)

\* UncertainArray.__new__(cls, array, dtype=hint, label=label): the dtype
\* of an exact ndarray replaces the caller's
New(array, hint, label) ==
    LET dtype == CASE array.cls = "ndarray" -> array.dtype
                   [] hint = None -> "object"
                   [] OTHER -> hint[1]
    IN  Returned("uarray", dtype, array.shape,
                 [i \in 1..Len(array.items) |-> Convert(dtype, array.items[i])], label)

\* variant: a view that starts without a label
ArrayFinalizeUnlabelled(obj, shape, items) ==
    Returned("uarray", obj.dtype, shape, items, None)

\* __array_finalize__(self, obj) for a view or slice numpy makes of obj:
\* the label is taken from obj
ArrayFinalize(obj, shape, items) ==
    Returned("uarray", obj.dtype, shape, items,
             IF obj.cls = "uarray" THEN obj.label ELSE None)

\* self[...] (rows = 0) or self[:rows] along the first axis
Slice(s, rows) ==
    IF rows = 0
    THEN ArrayFinalize(s, s.shape, s.items)
    ELSE ArrayFinalize(s, <<rows>> \o Tail(s.shape),
                       SubSeq(s.items, 1, rows * Size(Tail(s.shape))))

(***************************************************************************)
(* The reduction facade: each reduction delegates to numpy on             *)
(* np.asarray(self) and wraps the result when it kept a shape.             *)
(***************************************************************************)
Reducers == {"sum", "mean", "max", "min", "prod", "ptp", "any", "all"}

Cumulative == {"cumsum", "cumprod"}

\* what reducing the elements xs (in order) with the named reduction gives
RECURSIVE Fold(_, _)
Fold(name, xs) ==
    LET n == Len(xs)
        init == SubSeq(xs, 1, n - 1)
        last == xs[n]
    IN  CASE name = "mean" -> DivInt(Fold("sum", xs), n)
          [] name = "ptp" -> ScalarSub(Fold("max", xs), Fold("min", xs))
          [] name = "any" -> Bool(\E i \in 1..n : Truthy(xs[i]))
          [] name = "all" -> Bool(\A i \in 1..n : Truthy(xs[i]))
          [] n = 1 -> last
          [] name \in {"sum", "cumsum", "trace"} -> ScalarAdd(Fold(name, init), last)
          [] name \in {"prod", "cumprod"} -> App("mul", <<Fold(name, init), last>>)
          [] name = "max" ->
                LET m == Fold(name, init)
                IN  IF Less(last, m) \/ Equal(m, last) THEN m ELSE last
          [] name = "min" ->
                LET m == Fold(name, init)
                IN  IF Less(m, last) \/ Equal(m, last) THEN m ELSE last

\* the shape without axis k (k from 0)
DropAxis(shape, k) == SubSeq(shape, 1, k) \o SubSeq(shape, k + 2, Len(shape))

\* the elements along axis k (k from 0) that reduce to the o-th element
\* (o from 0) of the output
Lane(shape, items, k, o) ==
    LET inner == Size(SubSeq(shape, k + 2, Len(shape)))
    IN  [i \in 1..shape[k + 1] |->
            items[((o \div inner) * shape[k + 1] + (i - 1)) * inner + (o % inner) + 1]]

\* numpy's result: err, or the output (shape, items) and whether the object
\* numpy hands back has a .shape attribute (a Python object it took out of
\* an object array has none)
NumpyResult(dtype, shape, items) ==
    [err |-> "", dtype |-> dtype, shape |-> shape, items |-> items,
     hasShape |-> (shape # <<>> \/ dtype # "object")]

NumpyError(err) ==
    [err |-> err, dtype |-> "object", shape |-> <<>>, items |-> <<>>, hasShape |-> FALSE]

\* np.asarray(self).sum(axis, keepdims) and the like; axis None or Some(k)
NumpyReduce(s, name, axis, keepdims) ==
    LET dt == IF name \in {"any", "all"} THEN "bool" ELSE "object"
        k == axis[1]
        kept == [j \in 1..Len(s.shape) |-> 1]
    IN  CASE axis = None ->
                NumpyResult(dt, IF keepdims THEN kept ELSE <<>>, <<Fold(name, s.items)>>)
          [] k >= Len(s.shape) -> NumpyError("AxisError")
          [] OTHER ->
                LET os == DropAxis(s.shape, k)
                IN  NumpyResult(dt,
                        IF keepdims THEN [s.shape EXCEPT ![k + 1] = 1] ELSE os,
                        [o \in 1..Size(os) |-> Fold(name, Lane(s.shape, s.items, k, o - 1))])

\* np.asarray(self).cumsum(axis) and cumprod
NumpyCumulate(s, name, axis) ==
    LET k == axis[1]
        n == Size(s.shape)
    IN  CASE axis = None ->
                NumpyResult("object", <<n>>,
                            [i \in 1..n |-> Fold(name, SubSeq(s.items, 1, i))])
          [] k >= Len(s.shape) -> NumpyError("AxisError")
          [] OTHER ->
                LET inner == Size(SubSeq(s.shape, k + 2, Len(s.shape)))
                    Out(f) ==
                        LET c == Coord(f, s.shape, k + 1)
                            o == (f \div (inner * s.shape[k + 1])) * inner + (f % inner)
                        IN  Fold(name, SubSeq(Lane(s.shape, s.items, k, o), 1, c + 1))
                IN  NumpyResult("object", s.shape, [i \in 1..n |-> Out(i - 1)])

\* np.asarray(self).trace(): the sum of the diagonal of the first two axes
NumpyTrace(s) ==
    IF Len(s.shape) < 2 THEN NumpyError("ValueError")
    ELSE LET rows == s.shape[1]
             cols == s.shape[2]
             d == IF rows <= cols THEN rows ELSE cols
         IN  NumpyResult("object", <<>>,
                 <<Fold("trace", [i \in 1..d |-> s.items[(i - 1) * cols + i]])>>)

\* variant: the test `result.shape != ()` left out
WrapIfHasShape(r) ==
    CASE r.err # "" -> Raised(r.err)
      [] r.hasShape -> Returned("uarray", r.dtype, r.shape, r.items, None)
      [] OTHER -> Bare(r.items[1])

\* `if hasattr(result,'shape') and result.shape != (): return UncertainArray(result)`
WrapIfShaped(r) ==
    CASE r.err # "" -> Raised(r.err)
      [] r.hasShape /\ r.shape # <<>> -> Returned("uarray", r.dtype, r.shape, r.items, None)
      [] OTHER -> Bare(r.items[1])

\* variant: mean pasted from sum without renaming the numpy call
ReduceMeanAsSum(s, name, axis, keepdims) ==
    WrapIfShaped(NumpyReduce(s, IF name = "mean" THEN "sum" ELSE name, axis, keepdims))

\* sum, mean, max, min, prod, ptp, any, all
Reduce(s, name, axis, keepdims) == WrapIfShaped(NumpyReduce(s, name, axis, keepdims))

\* cumsum, cumprod
Cumulate(s, name, axis) == WrapIfShaped(NumpyCumulate(s, name, axis))

\* trace
Trace(s) == WrapIfShaped(NumpyTrace(s))

\* variant: std / var delegating to numpy like the other reductions
StdVarDelegating(s, name, axis, keepdims) ==
    WrapIfShaped(NumpyReduce(s, "mean", axis, keepdims))

\* std / var: raise TypeError
StdVar(s, name, axis, keepdims) == Raised("TypeError")

(***************************************************************************)
(* Inputs.                                                                 *)
(***************************************************************************)
\* the element values inputs are made of
Pool == <<Num(1), NaN, Num(2), Inf, UReal(0, 1)>>

\* n consecutive elements of the pool (cyclically) from position start
Contents(start, n) == [i \in 1..n |-> Pool[((start + i - 2) % Len(Pool)) + 1]]

Shapes ==
    {<<>>} \cup {<<n>> : n \in 1..MaxDim} \cup {<<m, n>> : m, n \in 1..MaxDim}

\* single elements are drawn from the whole pool
Starts(n) == IF n = 1 THEN 1..Len(Pool) ELSE 1..MaxStart

Generated(cls) ==
    UNION {{Array(cls, "object", sh, Contents(st, Size(sh)), None) : st \in Starts(Size(sh))} :
            sh \in Shapes}

\* arrays constructed with label='amps'
Labelled ==
    {Array("uarray", "object", sh, Contents(1, Size(sh)), Some("amps")) :
        sh \in {<<>>, <<2>>, <<1, 2>>}}

\* the array [1, 2, 3] of three plain numbers
OneTwoThree == Array("uarray", "object", <<3>>, <<Num(1), Num(2), Num(3)>>, None)

\* the arrays a call can be made on
Selves == Generated("uarray") \cup {OneTwoThree}

\* the second input of a two-input call: an UncertainArray, a plain ndarray,
\* a single number or uncertain number, or a list
Operands ==
    Generated("uarray") \cup Generated("ndarray")
        \cup {Array("scalar", "object", <<>>, Contents(st, 1), None) : st \in 1..Len(Pool)}
        \cup UNION {{Array("list", "object", <<n>>, Contents(st, n), None) : st \in Starts(n)} :
                        n \in 1..MaxDim}

\* where self stands in a two-input call that dispatches to it: first when
\* the other input is an UncertainArray; a plain ndarray is taken as the
\* first input (as second input the code treats it as it does an
\* UncertainArray)
Positions(other) ==
    CASE other.cls = "uarray" -> {0}
      [] other.cls = "ndarray" -> {1}
      [] OTHER -> {0, 1}

Dtypes == {"object", "float"}

Axes == {None} \cup {Some(k) : k \in 0..1}

\* a single number or uncertain number
Scalars == {Array("scalar", "object", <<>>, Contents(st, 1), None) : st \in 1..Len(Pool)}

\* the other input of a ufunc called with keyword options: none (a ufunc
\* of one input), a single number, or a list
OptionOperands ==
    {NoOperand} \cup Scalars
        \cup UNION {{Array("list", "object", <<n>>, Contents(st, n), None) : st \in Starts(n)} :
                        n \in 1..MaxDim}

\* the labels argument of _intermediate: None, one label, or a sequence of
\* 1..MaxLabels distinct labels
LabelInputs ==
    {NoOperand, Array("scalar", "str", <<>>, <<Str("x")>>, None)}
        \cup {Array("list", "str", <<n>>, [i \in 1..n |-> Str("n" \o ToString(i))], None) :
                n \in 1..MaxLabels}

\* the argument x of sensitivity(x) and u_component(x)
ReportingInputs == Scalars \cup Generated("uarray")

\* what UncertainArray(...) is constructed from, besides an existing
\* UncertainArray: ndarrays of a definite dtype, and lists
ConstructInputs ==
    {Array("ndarray", "int", <<2>>, <<Num(1), Num(2)>>, None),
     Array("ndarray", "float", <<2>>, <<Num(1), NaN>>, None),
     Array("ndarray", "object", <<2>>, <<Num(1), UReal(0, 1)>>, None),
     Array("list", "object", <<2>>, <<Num(1), Num(2)>>, None),
     Array("list", "object", <<2>>, <<Bool(TRUE), Inf>>, None),
     Array("list", "object", <<1>>, <<UReal(0, 1)>>, None)}

\* the dtype argument of a construction
Hints == {None, Some("object"), Some("float")}

Call(op, kind, pos, other, dtype, axis, keepdims) ==
    [op |-> op, kind |-> kind, pos |-> pos, other |-> other, dtype |-> dtype,
     axis |-> axis, keepdims |-> keepdims, kwargs |-> FALSE, hint |-> None,
     label |-> None]

(***************************************************************************)
(* The state machine.                                                      *)
(***************************************************************************)
NoCall == Call("", "none", 0, NoOperand, "object", None, FALSE)

Idle == out.kind = "none"

Init ==
    /\ self \in Selves
    /\ call = NoCall
    /\ out = NoResult
    /\ warned = 0

\* a ufunc of one input on self, e.g. np.exp(self)
UfuncUnary ==
    /\ Idle
    /\ \E name \in UnaryNames \cup {"floor"} :
        LET r == ArrayUfunc(self, name, <<self>>, FALSE)
        IN  /\ self' = AfterCall(self, r.bshape)
            /\ call' = Call(name, "ufunc1", 0, NoOperand, "object", None, FALSE)
            /\ out' = r.out
            /\ warned' = r.warned

\* a ufunc of two inputs that dispatches to self: self is the first input,
\* or the second when the first is no UncertainArray
UfuncBinary ==
    /\ Idle
    /\ \E name \in BinaryNames \cup {"floor_divide"}, other \in Operands, pos \in {0, 1} :
        /\ pos \in Positions(other)
        /\ LET r == ArrayUfunc(self, name,
                               IF pos = 0 THEN <<self, other>> ELSE <<other, self>>, FALSE)
           IN  /\ self' = AfterCall(self, r.bshape)
               /\ call' = Call(name, "ufunc2", pos, other, "object", None, FALSE)
               /\ out' = r.out
               /\ warned' = r.warned

\* self.real, self.imag, self.r, self.value(dtype), ...
GetAccessor ==
    /\ Idle
    /\ \E name \in AccessorNames, dtype \in Dtypes :
        /\ name \in {"real", "imag", "r"} => dtype = "object"
        /\ call' = Call(name, "accessor", 0, NoOperand, dtype, None, FALSE)
        /\ out' = Accessor(self, name, dtype)
        /\ UNCHANGED self
        /\ warned' = 0

CallCopy ==
    /\ Idle
    /\ call' = Call("copy", "method", 0, NoOperand, "object", None, FALSE)
    /\ out' = Copy(self)
    /\ UNCHANGED self
    /\ warned' = 0

CallRound ==
    /\ Idle
    /\ call' = Call("round", "method", 0, NoOperand, "object", None, FALSE)
    /\ out' = Round(self)
    /\ UNCHANGED self
    /\ warned' = 0

CallReduce ==
    /\ Idle
    /\ \E name \in Reducers, axis \in Axes, keepdims \in BOOLEAN :
        /\ call' = Call(name, "reduction", 0, NoOperand, "object", axis, keepdims)
        /\ out' = Reduce(self, name, axis, keepdims)
        /\ UNCHANGED self
        /\ warned' = 0

CallCumulate ==
    /\ Idle
    /\ \E name \in Cumulative, axis \in Axes :
        /\ call' = Call(name, "reduction", 0, NoOperand, "object", axis, FALSE)
        /\ out' = Cumulate(self, name, axis)
        /\ UNCHANGED self
        /\ warned' = 0

CallTrace ==
    /\ Idle
    /\ call' = Call("trace", "reduction", 0, NoOperand, "object", None, FALSE)
    /\ out' = Trace(self)
    /\ UNCHANGED self
    /\ warned' = 0

CallStdVar ==
    /\ Idle
    /\ \E name \in {"std", "var"}, axis \in Axes, keepdims \in BOOLEAN :
        /\ call' = Call(name, "reduction", 0, NoOperand, "object", axis, keepdims)
        /\ out' = StdVar(self, name, axis, keepdims)
        /\ UNCHANGED self
        /\ warned' = 0

\* result(self, label=labels), which GTC.core hands to self._intermediate
CallIntermediate ==
    /\ Idle
    /\ \E labels \in LabelInputs :
        /\ call' = Call("result", "intermediate", 0, labels, "object", None, FALSE)
        /\ out' = Intermediate(self, labels)
        /\ warned' = 0
        /\ UNCHANGED self

\* self.sensitivity(x), self.u_component(x)
CallReporting ==
    /\ Idle
    /\ \E name \in {"sensitivity", "u_component"}, x \in ReportingInputs :
        /\ call' = Call(name, "reporting", 0, x, "object", None, FALSE)
        /\ out' = Reporting(self, name, x)
        /\ warned' = 0
        /\ UNCHANGED self

\* UncertainArray(array, dtype=hint, label=label), from self or from a
\* fresh input; a float dtype is asked for plain numbers only
Construct ==
    /\ Idle
    /\ \E array \in ConstructInputs \cup {self}, hint \in Hints, label \in {None, Some("volts")} :
        /\ hint = Some("float") => \A i \in 1..Len(array.items) : array.items[i].t \in {"num", "bool"}
        /\ call' = [Call("uarray", "construct", 0, [array EXCEPT !.bshape = None], "object",
                          None, FALSE)
                        EXCEPT !.hint = hint, !.label = label]
        /\ out' = New(array, hint, label)
        /\ warned' = 0
        /\ UNCHANGED self

\* self[...] or self[:1]: numpy makes the view and calls __array_finalize__
TakeView ==
    /\ Idle
    /\ \E rows \in 0..1 :
        /\ rows = 1 => self.shape # <<>>
        /\ call' = Call("getitem", "view", rows, NoOperand, "object", None, FALSE)
        /\ out' = Slice(self, rows)
        /\ warned' = 0
        /\ UNCHANGED self

\* np.add(self, other), which is also what self + other calls
UfuncAdd ==
    /\ Idle
    /\ \E other \in Operands :
        LET r == ArrayUfunc(self, "add", <<self, other>>, FALSE)
        IN  /\ self' = AfterCall(self, r.bshape)
            /\ call' = Call("add", "ufunc2", 0, other, "object", None, FALSE)
            /\ out' = r.out
            /\ warned' = r.warned

\* a ufunc called on self with keyword options, e.g. np.add(self, 1, where=m)
UfuncWithOptions ==
    /\ Idle
    /\ \E other \in OptionOperands, pos \in {0, 1} :
        \E name \in IF other = NoOperand THEN UnaryNames \cup {"floor"}
                     ELSE BinaryNames \cup {"floor_divide"} :
            /\ other = NoOperand => pos = 0
            /\ LET r == ArrayUfunc(self, name,
                                   CASE other = NoOperand -> <<self>>
                                     [] pos = 0 -> <<self, other>>
                                     [] OTHER -> <<other, self>>,
                                   TRUE)
               IN  /\ self' = AfterCall(self, r.bshape)
                   /\ call' = [Call(name, IF other = NoOperand THEN "ufunc1" ELSE "ufunc2",
                                     pos, other, "object", None, FALSE)
                                   EXCEPT !.kwargs = TRUE]
                   /\ out' = r.out
                   /\ warned' = r.warned

\* self.x, self.u, self.v, self.df
GetAttribute ==
    /\ Idle
    /\ \E name \in AttributeNames :
        /\ call' = Call(name, "attribute", 0, NoOperand, "object", None, FALSE)
        /\ out' = Attribute(self, name)
        /\ warned' = 0
        /\ UNCHANGED self

\* self.real(), self.imag(dtype), ...: a property used as a method
CallAProperty ==
    /\ Idle
    /\ \E name \in {"real", "imag", "r"}, dtype \in Dtypes :
        /\ call' = Call(name, "called", 0, NoOperand, dtype, None, FALSE)
        /\ out' = CallProperty(self, name, dtype)
        /\ warned' = 0
        /\ UNCHANGED self

\* the caller is done with the result
Discard ==
    /\ ~Idle
    /\ call' = NoCall
    /\ out' = NoResult
    /\ warned' = 0
    /\ UNCHANGED self

Next ==
    \/ UfuncUnary
    \/ UfuncBinary
    \/ GetAccessor
    \/ CallCopy
    \/ CallRound
    \/ CallReduce
    \/ CallCumulate
    \/ CallTrace
    \/ CallStdVar
    \/ Discard

Spec == Init /\ [][Next]_vars

\* the methods of an array, labelled or not, that make another array from
\* it, with the additions that leave a broadcast shape behind
InitMethods ==
    /\ self \in Selves \cup Labelled
    /\ call = NoCall
    /\ out = NoResult
    /\ warned = 0

NextMethods ==
    \/ UfuncAdd
    \/ UfuncWithOptions
    \/ UfuncUnary
    \/ GetAccessor
    \/ GetAttribute
    \/ CallAProperty
    \/ CallCopy
    \/ CallReduce
    \/ CallIntermediate
    \/ CallReporting
    \/ Construct
    \/ TakeView
    \/ Discard

SpecMethods == InitMethods /\ [][NextMethods]_vars

(***************************************************************************)
(* function.py: complex_to_seq and seq_to_complex.                         *)
(***************************************************************************)
\* GTC.EPSILON, the tolerance of seq_to_complex; the numbers of a sequence
\* are counted in units of it
EPSILON == 1

\* the parts of the numbers of a sequence lie in -MaxPart..MaxPart
MaxPart == 1

\* complex(re, im)
Complex(re, im) == Elem("complex", "fin", 0, 1, 0, "", <<re, im>>)

\* z.real and z.imag, after z = complex(z)
Real(z) == IF z.t = "complex" THEN z.args[1] ELSE z

Imag(z) == IF z.t = "complex" THEN z.args[2] ELSE Num(0)

\* a tuple or list of numbers
List(items) == Array("list", "object", <<Len(items)>>, items, None)

\* math.fabs(v) > EPSILON
IllConditioned(v) == Less(Num(EPSILON), ScalarAbs(v))

\* complex_to_seq(z)
ComplexToSeq(z) == List(<<Real(z), ScalarNeg(Imag(z)), Imag(z), Real(z)>>)

\* variant: the imaginary part read from the second element
SeqToComplexFromSecond(seq) ==
    CASE IsNdarray(seq) ->
           IF seq.shape # <<2, 2>>
           THEN Raised("RuntimeError")
           ELSE IF \/ IllConditioned(ScalarSub(seq.items[1], seq.items[4]))
                   \/ IllConditioned(ScalarAdd(seq.items[3], seq.items[2]))
           THEN Raised("RuntimeError")
           ELSE Bare(Complex(seq.items[1], seq.items[2]))
      [] is_sequence(seq) ->
           IF Len(seq.items) # 4
           THEN Raised("RuntimeError")
           ELSE IF \/ IllConditioned(ScalarSub(seq.items[1], seq.items[4]))
                   \/ IllConditioned(ScalarAdd(seq.items[2], seq.items[3]))
           THEN Raised("RuntimeError")
           ELSE Bare(Complex(seq.items[1], seq.items[2]))
      [] OTHER -> Raised("RuntimeError")

\* seq_to_complex(seq): an array is tested by shape and by seq[0,0]-seq[1,1]
\* and seq[1,0]+seq[0,1] and then flattened, any other sequence by length
\* and by seq[0]-seq[3] and seq[1]+seq[2]; the result is
\* complex(seq[0], seq[2])
SeqToComplex(seq) ==
    CASE IsNdarray(seq) ->
           IF seq.shape # <<2, 2>>
           THEN Raised("RuntimeError")
           ELSE IF \/ IllConditioned(ScalarSub(seq.items[1], seq.items[4]))
                   \/ IllConditioned(ScalarAdd(seq.items[3], seq.items[2]))
           THEN Raised("RuntimeError")
           ELSE Bare(Complex(seq.items[1], seq.items[3]))
      [] is_sequence(seq) ->
           IF Len(seq.items) # 4
           THEN Raised("RuntimeError")
           ELSE IF \/ IllConditioned(ScalarSub(seq.items[1], seq.items[4]))
                   \/ IllConditioned(ScalarAdd(seq.items[2], seq.items[3]))
           THEN Raised("RuntimeError")
           ELSE Bare(Complex(seq.items[1], seq.items[3]))
      [] OTHER -> Raised("RuntimeError")

\* the numbers a sequence or a complex number is made of
Parts == {Num(k) : k \in (0 - MaxPart)..MaxPart} \cup {NaN, Inf}

Quadruples == {<<a, b, c, d>> : a \in Parts, b \in Parts, c \in Parts, d \in Parts}

Zeros(n) == [i \in 1..n |-> Num(0)]

\* the arguments of seq_to_complex: lists and 2-by-2 arrays of four numbers,
\* lists and arrays of other lengths and shapes, and things that are
\* neither
SeqInputs ==
    {List(q) : q \in Quadruples}
      \cup {Array("ndarray", "float", <<2, 2>>, q, None) : q \in Quadruples}
      \cup {List(Zeros(n)) : n \in {0, 1, 2, 3, 5}}
      \cup {Array("ndarray", "float", <<4>>, Zeros(4), None),
            Array("ndarray", "float", <<2>>, Zeros(2), None),
            Array("ndarray", "float", <<4, 1>>, Zeros(4), None),
            Array("ndarray", "float", <<1, 2, 2>>, Zeros(4), None)}
      \cup {Array("scalar", "object", <<>>, <<e>>, None) : e \in {Num(0), Str("1001")}}

\* the arguments of complex_to_seq: complex numbers and real numbers
ComplexInputs == {Complex(re, im) : re \in Parts, im \in Parts} \cup Parts

\* a call of one of the two functions, not yet evaluated
InitSeq ==
    /\ self = NoOperand
    /\ \/ \E seq \in SeqInputs :
             call = Call("seq_to_complex", "function", 0, seq, "object", None, FALSE)
       \/ \E z \in ComplexInputs :
             call = Call("round_trip", "function", 0,
                         Array("scalar", "object", <<>>, <<z>>, None),
                         "object", None, FALSE)
    /\ out = NoResult
    /\ warned = 0

\* seq_to_complex(seq)
CallSeqToComplex ==
    /\ Idle
    /\ call.op = "seq_to_complex"
    /\ out' = SeqToComplex(call.other)
    /\ UNCHANGED <<self, call, warned>>

\* seq_to_complex(complex_to_seq(z))
CallRoundTrip ==
    /\ Idle
    /\ call.op = "round_trip"
    /\ out' = SeqToComplex(ComplexToSeq(call.other.items[1]))
    /\ UNCHANGED <<self, call, warned>>

NextSeq ==
    \/ CallSeqToComplex
    \/ CallRoundTrip

SpecSeq == InitSeq /\ [][NextSeq]_vars

(***************************************************************************)
(* The claims.  Each is stated on the call just made (`call`), the array   *)
(* it was made on (`self`) and its result (`out`).                         *)
(***************************************************************************)
\* the two inputs of the two-input call just made, in operand order
In0 == IF call.pos = 0 THEN self ELSE call.other
In1 == IF call.pos = 0 THEN call.other ELSE self

\* element i of each input seen under the broadcast of the two shapes
BothShape == BroadcastShape(Coerce(In0, In1).shape, Coerce(In1, In0).shape)
Left == BroadcastItems(Coerce(In0, In1).shape, Coerce(In0, In1).items, BothShape)
Right == BroadcastItems(Coerce(In1, In0).shape, Coerce(In1, In0).items, BothShape)

OtherIsArray == IsNdarray(call.other)

\* the scalar operation a one-input call stands for
ScalarOf(op, e) ==
    CASE op \in UnaryNames -> ElementOp(op, e)
      [] op \in AccessorNames -> AccessorOp(op, e)
      [] op = "copy" -> e
      [] op = "round" -> App("round", <<e>>)

OneInput == call.kind \in {"ufunc1", "accessor", "method"} /\ call.op # "floor"

\* C1: for a 0-dimensional array, every elementwise accessor or operation
\* (one-input handlers and accessors, and two-input handlers with a
\* 0-dimensional partner) returns, bare, the scalar operation applied to the
\* sole element; no result buffer is allocated.
C1_ZeroDimIsScalarOp ==
    /\ (self.shape = <<>> /\ call.kind \in {"ufunc1", "accessor"} /\ call.op # "floor")
          => out = Bare(ScalarOf(call.op, self.items[1]))
    /\ (self.shape = <<>> /\ call.kind = "ufunc2" /\ call.other.shape = <<>>
            /\ call.op \in BinaryNames \ {"logical_xor"})
          => out = Bare(ElementPair(call.op, In0.items[1], In1.items[1]))

\* C2: for arrays a and b of broadcast-compatible shapes, whichever of them
\* dispatches, a+b succeeds, has the broadcast shape, and its element i is
\* a's broadcast element i plus b's broadcast element i.
C2_AddBroadcasts ==
    (call.kind = "ufunc2" /\ call.op = "add" /\ OtherIsArray
        /\ BroadcastOK(In0.shape, In1.shape))
      => /\ out.kind \in {"bare", "array"}
         /\ out.shape = BothShape
         /\ out.items = [i \in 1..Size(BothShape) |-> ScalarAdd(Left[i], Right[i])]

\* C3: whatever was called on an array before, a one-input operation or
\* accessor on it returns a result of the array's own shape whose element i
\* is the scalar operation on the array's element i, no slot left unwritten
\* (stated for arrays of one or more dimensions).
C3_OneInputKeepsOwnShape ==
    (OneInput /\ self.shape # <<>>)
      => /\ out.kind = "array"
         /\ out.shape = self.shape
         /\ out.items = [i \in 1..Size(self.shape) |-> ScalarOf(call.op, self.items[i])]

ExtremumCall ==
    /\ call.kind = "ufunc2"
    /\ call.op \in {"maximum", "minimum"}
    /\ out.kind = "array"

OneTwoNaN ==
    /\ ExtremumCall
    /\ OtherIsArray
    /\ Left = <<Num(1), NaN>>
    /\ Right = <<NaN, Num(2)>>

\* C4 as claimed: maximum and minimum never return NaN when exactly one
\* operand of a pair is NaN; for [1, NaN] and [NaN, 2] the result is [1, 2].
C4_NaNNeverWins ==
    /\ ExtremumCall =>
          \A i \in 1..Len(out.items) :
              (isnan(Left[i]) # isnan(Right[i])) => ~isnan(out.items[i])
    /\ OneTwoNaN => out.items = <<Num(1), Num(2)>>

\* C4 as amended: when the dispatching array has one or more dimensions,
\* element i of maximum and of minimum is NaN whenever either operand of
\* pair i is NaN (the first operand if it is NaN, else the second); for
\* [1, NaN] and [NaN, 2] both elements of the result are NaN.
C4_NaNPropagates ==
    /\ ExtremumCall =>
          \A i \in 1..Len(out.items) :
              /\ isnan(Left[i]) => out.items[i] = Left[i]
              /\ (~isnan(Left[i]) /\ isnan(Right[i])) => out.items[i] = Right[i]
              /\ (~isnan(Left[i]) /\ ~isnan(Right[i])) => ~isnan(out.items[i])
    /\ OneTwoNaN => out.items = <<NaN, NaN>>

C4_Witness ==
    /\ OneTwoNaN
    /\ call.op = "maximum"
    /\ out.shape = <<2>>
    /\ out.items = <<NaN, NaN>>

\* C5: logical_and and logical_or on arrays of one or more dimensions
\* return a plain boolean array, no element of which is an uncertain value
\* or any other non-boolean operand.
C5_LogicalGivesBooleans ==
    (call.kind = "ufunc2" /\ call.op \in {"logical_and", "logical_or"}
        /\ self.shape # <<>> /\ out.kind = "array")
      => /\ out.cls = "ndarray"
         /\ out.dtype = "bool"
         /\ \A i \in 1..Len(out.items) : out.items[i].t = "bool"

EqualShapeComparison ==
    /\ call.kind = "ufunc2"
    /\ call.op \in Comparisons
    /\ OtherIsArray
    /\ call.other.shape = self.shape
    /\ self.shape # <<>>

\* C6: each of the six comparisons on two equal-shape arrays of one or more
\* dimensions returns a plain boolean array of that shape, never an
\* UncertainArray, whose element i is the comparison of the two i-th
\* elements.
C6_ComparisonGivesBooleanArray ==
    EqualShapeComparison
      => /\ out.kind = "array"
         /\ out.cls = "ndarray"
         /\ out.dtype = "bool"
         /\ out.shape = self.shape
         /\ out.items = [i \in 1..Size(self.shape) |->
                            PairOp(call.op, In0.items[i], In1.items[i])]
         /\ \A i \in 1..Len(out.items) : out.items[i].t = "bool"

C6_Witness ==
    /\ EqualShapeComparison
    /\ call.op = "less_equal"
    /\ self.shape = <<2>>
    /\ out.cls = "ndarray"
    /\ out.items = <<Bool(TRUE), Bool(FALSE)>>

\* C7: isnan, isinf, isfinite and logical_not on an array of one or more
\* dimensions return a plain boolean array of the array's shape, isfinite
\* element i being true exactly when element i is neither NaN nor infinite.
C7_PredicateGivesBooleanArray ==
    (call.kind = "ufunc1" /\ call.op \in Predicates \cup {"logical_not"}
        /\ self.shape # <<>>)
      => /\ out.kind = "array"
         /\ out.cls = "ndarray"
         /\ out.dtype = "bool"
         /\ out.shape = self.shape
         /\ call.op = "isfinite" =>
                out.items = [i \in 1..Size(self.shape) |->
                                Bool(~isnan(self.items[i]) /\ ~isinf(self.items[i]))]

DefaultReduction(op) ==
    /\ call.kind = "reduction"
    /\ call.op = op
    /\ call.axis = None
    /\ ~call.keepdims
    /\ self = OneTwoThree

\* C8 as claimed: over [1, 2, 3] mean yields 6 and sum yields 2, each bare.
C8_MeanSixSumTwo ==
    /\ DefaultReduction("mean") => out = Bare(Num(6))
    /\ DefaultReduction("sum") => out = Bare(Num(2))

\* C8 as amended: over [1, 2, 3] sum yields 6 and mean yields 2, each
\* returned as a bare scalar, not wrapped in an UncertainArray.
C8_SumSixMeanTwo ==
    /\ DefaultReduction("sum") => out = Bare(Num(6))
    /\ DefaultReduction("mean") => out = Bare(Num(2))

C8_Witness == DefaultReduction("mean") /\ out = Bare(Num(2))

\* what numpy's reduction, which the call just made delegates to, returned
Underlying ==
    CASE call.op \in Reducers -> NumpyReduce(self, call.op, call.axis, call.keepdims)
      [] call.op \in Cumulative -> NumpyCumulate(self, call.op, call.axis)
      [] OTHER -> NumpyTrace(self)

FacadeReduction ==
    /\ call.kind = "reduction"
    /\ call.op \in Reducers \cup Cumulative \cup {"trace"}
    /\ out.kind # "error"

\* C9: for every reduction of the facade, every array and every axis
\* argument, the result is wrapped as an UncertainArray if and only if the
\* underlying reduction's output has a non-empty shape; a fully reduced
\* result is returned as the bare value.
C9_WrappedIffShaped ==
    FacadeReduction
      => /\ (out.kind = "array" /\ out.cls = "uarray") <=> (Underlying.shape # <<>>)
         /\ Underlying.shape = <<>> => out = Bare(Underlying.items[1])
         /\ Underlying.shape # <<>> => (out.shape = Underlying.shape
                                          /\ out.items = Underlying.items)

C9_Witness ==
    /\ FacadeReduction
    /\ call.op = "all"
    /\ call.axis = Some(1)
    /\ self.shape = <<2, 2>>
    /\ out.kind = "array"
    /\ out.shape = <<2>>

\* C10: std and var, on any UncertainArray and with any arguments, raise
\* TypeError and return nothing.
C10_StdVarRaise ==
    (call.kind = "reduction" /\ call.op \in {"std", "var"}) => out = Raised("TypeError")

C10_Witness ==
    /\ call.op = "var"
    /\ call.axis = Some(0)
    /\ self.shape = <<2, 2>>
    /\ out = Raised("TypeError")

\* C11: registering intermediate results on an array of more than one
\* element with one label L that is no sequence registers element i (in
\* flattened order, from 0) under the label "L[i]".
SharedLabel ==
    /\ call.kind = "intermediate"
    /\ call.other.cls = "scalar"
    /\ Size(self.shape) > 1

C11_SharedLabelIsIndexed ==
    SharedLabel
      => /\ out.kind = "array"
         /\ \A i \in 1..Size(self.shape) :
                out.items[i]
                    = App("result", <<self.items[i],
                                      Str(call.other.items[1].f \o "[" \o ToString(i - 1) \o "]")>>)

\* the array [1, 2, 3] registered under "x" gives x[0], x[1], x[2]
C11_Witness ==
    /\ SharedLabel
    /\ self.items = <<Num(1), Num(2), Num(3)>>
    /\ out.items = <<App("result", <<Num(1), Str("x[0]")>>),
                     App("result", <<Num(2), Str("x[1]")>>),
                     App("result", <<Num(3), Str("x[2]")>>)>>

\* C12: copy(a) returns a new array with the label and the shape of a whose
\* element i equals a's element i (the part of the claim about the two
\* buffers being separate is not needed to refute it).
C12_CopyKeepsLabelShapeElements ==
    call.op = "copy"
      => /\ out.kind = "array"
         /\ out.label = self.label
         /\ out.shape = self.shape
         /\ out.items = self.items

\* C13: a ufunc whose name has no handler raises NotImplementedError before
\* any coercion, broadcasting or element computation: nothing is returned,
\* self._broadcasted_shape is not touched, and no warning is emitted.
C13_NoHandlerRaisesFirst ==
    [][(call'.kind \in {"ufunc1", "ufunc2"} /\ ~HasHandler(call'.op))
          => /\ out' = Raised("NotImplementedError")
             /\ self' = self
             /\ warned' = 0]_vars

\* the shapes of the two inputs cannot be aligned: some pair of axes,
\* counted from the last, has two different sizes neither of which is 1
Misaligned(s1, s2) ==
    \E j \in 1..(IF Len(s1) <= Len(s2) THEN Len(s1) ELSE Len(s2)) :
        LET a == s1[Len(s1) - j + 1]
            b == s2[Len(s2) - j + 1]
        IN  a # b /\ a # 1 /\ b # 1

\* np.floor_divide on an array that kept a broadcast shape, with an input it
\* cannot be aligned with
C13_Witness ==
    /\ call.op = "floor_divide"
    /\ self.bshape # None
    /\ Misaligned(In0.shape, In1.shape)
    /\ out = Raised("NotImplementedError")

\* the inputs of the ufunc call just made, in operand order
Inputs == IF call.kind = "ufunc1" THEN <<self>> ELSE <<In0, In1>>

\* C14: a supported ufunc called with keyword options emits exactly one
\* warning and ends as the same call without the options ends.
C14_OptionsWarnOnce ==
    (call.kind \in {"ufunc1", "ufunc2"} /\ call.kwargs /\ HasHandler(call.op))
      => /\ warned = 1
         /\ out = ArrayUfunc(self, call.op, Inputs, FALSE).out

C14_Witness ==
    /\ call.op = "add"
    /\ call.kwargs
    /\ call.other.cls = "list"
    /\ self.shape = <<2, 2>>
    /\ out.kind = "array"
    /\ out.shape = <<2, 2>>
    /\ warned = 1

\* C15: in a two-input dispatch the input that is no array, if a single
\* number or uncertain number, becomes an array of the other input's shape
\* filled with it, and otherwise an array of its own elements; the array
\* input is handed on unchanged and in its operand position (seen in a
\* subtraction, which depends on the order).
C15_NonArrayInputIsCoerced ==
    (call.kind = "ufunc2" /\ HasHandler(call.op))
      => LET mine == IF call.pos = 0 THEN Coerce(In0, In1) ELSE Coerce(In1, In0)
             theirs == IF call.pos = 0 THEN Coerce(In1, In0) ELSE Coerce(In0, In1)
         IN  /\ mine = ArrayView(self)
             /\ call.other.cls = "scalar"
                  => /\ theirs.shape = self.shape
                     /\ \A i \in 1..Size(self.shape) : theirs.items[i] = call.other.items[1]
             /\ call.other.cls # "scalar"
                  => /\ theirs.shape = call.other.shape
                     /\ theirs.items = call.other.items
             /\ (call.op = "subtract" /\ call.other.cls = "scalar" /\ self.shape # <<>>)
                  => /\ out.kind = "array"
                     /\ out.shape = self.shape
                     /\ \A i \in 1..Size(self.shape) :
                            out.items[i]
                                = IF call.pos = 0
                                  THEN ScalarSub(self.items[i], call.other.items[1])
                                  ELSE ScalarSub(call.other.items[1], self.items[i])

\* 2 - [1, NaN] is [1, NaN]
C15_Witness ==
    /\ call.op = "subtract"
    /\ call.pos = 1
    /\ call.other.cls = "scalar"
    /\ call.other.items = <<Num(2)>>
    /\ self.items = <<Num(1), NaN>>
    /\ out.items = <<Num(1), NaN>>

\* C16: sensitivity(x) and u_component(x) iterate self and x under one
\* broadcast shape: for an x that is a single number or an array of a
\* compatible shape, the result has the broadcast shape and every element
\* is computed from a pair of elements.
C16_ReportingBroadcasts ==
    (call.kind = "reporting" /\ self.shape # <<>>
        /\ BroadcastOK(self.shape, call.other.shape))
      => LET bs == BroadcastShape(self.shape, call.other.shape)
             ys == BroadcastItems(self.shape, self.items, bs)
             xs == BroadcastItems(call.other.shape, call.other.items, bs)
         IN  /\ out.kind = "array"
             /\ out.shape = bs
             /\ out.items = [i \in 1..Size(bs) |-> App(call.op, <<ys[i], xs[i]>>)]

\* C17: a two-input operation on inputs whose shapes cannot be aligned
\* raises the ValueError of the broadcast step; no handler runs and no
\* array is returned.
C17_MisalignedShapesRaise ==
    (call.kind = "ufunc2" /\ HasHandler(call.op) /\ Misaligned(In0.shape, In1.shape))
      => out = Raised("ValueError")

\* logical_xor, whose handler would raise TypeError had it run
C17_Witness ==
    /\ call.kind = "ufunc2"
    /\ call.op = "logical_xor"
    /\ Misaligned(In0.shape, In1.shape)
    /\ out = Raised("ValueError")

\* C18: registering intermediate results with a sequence of labels that is
\* shorter or longer than the array has elements raises an error.
C18_WrongLabelCountRaises ==
    (call.kind = "intermediate" /\ call.other.cls = "list"
        /\ Len(call.other.items) # Size(self.shape))
      => out.kind = "error"

\* C19 as stated: a dtype given by the caller is the dtype of the array
\* built from an ndarray, and without one an input that is no array gives
\* an object array.
C19_HintHonoured ==
    call.kind = "construct"
      => /\ (call.other.cls = "ndarray" /\ call.hint # None) => out.dtype = call.hint[1]
         /\ (call.other.cls # "ndarray" /\ call.hint = None) => out.dtype = "object"

\* C19 as the code has it: an array built from an exact ndarray has that
\* ndarray's dtype whatever the caller gave; built from anything else it
\* has the caller's dtype, and object when the caller gave none.
C19_ArrayDtypeWins ==
    call.kind = "construct"
      => /\ call.other.cls = "ndarray" => out.dtype = call.other.dtype
         /\ (call.other.cls # "ndarray" /\ call.hint # None) => out.dtype = call.hint[1]
         /\ (call.other.cls # "ndarray" /\ call.hint = None) => out.dtype = "object"

C19_Witness ==
    /\ call.kind = "construct"
    /\ call.other.cls = "ndarray"
    /\ call.other.dtype = "int"
    /\ call.hint = Some("float")
    /\ out.dtype = "int"

\* the calls that derive an array from self element by element, through an
\* accessor or through a reduction
Derives == call.kind \in {"ufunc1", "ufunc2", "accessor", "reduction", "intermediate", "reporting"}

\* C20 as stated: an array made from a labelled array by an elementwise
\* operation, an accessor, a reduction or as a view or slice has no label;
\* copy() returns an array with the same label.
C20_OnlyCopyCarriesLabel ==
    out.kind = "array"
      => /\ (Derives \/ call.kind = "view") => out.label = None
         /\ call.op = "copy" => out.label = self.label

\* C20 as the code has it: a constructed array has the label given to the
\* constructor; elementwise operations, accessors and reductions return
\* arrays without a label; copy() and views or slices carry the label.
C20_CopyAndViewsCarryLabel ==
    out.kind = "array"
      => /\ Derives => out.label = None
         /\ call.kind = "construct" => out.label = call.label
         /\ (call.op = "copy" \/ call.kind = "view") => out.label = self.label

\* a slice of an array labelled 'amps'
C20_Witness ==
    /\ call.kind = "view"
    /\ call.pos = 1
    /\ self.label = Some("amps")
    /\ out.kind = "array"
    /\ out.label = Some("amps")

\* C21: no operation mutates an input in place: across every call (an
\* elementwise operation, an accessor, a reduction, copy) the array it was
\* made on keeps its shape, its label, its element kind and every element.
C21_InputsNotMutated ==
    [][/\ self'.shape = self.shape
       /\ self'.items = self.items
       /\ self'.label = self.label
       /\ self'.dtype = self.dtype]_vars

\* a broadcast addition returned a larger array and left the array it was
\* called on as it was constructed
C21_Witness ==
    /\ call.kind = "ufunc2"
    /\ out.kind = "array"
    /\ Size(out.shape) > Size(self.shape)
    /\ self.bshape = Some(out.shape)
    /\ [self EXCEPT !.bshape = None] \in Selves

\* C24: _broadcasted_shape is cleared at the start of every two-input
\* dispatch and set only when the shapes of the two coerced inputs differ,
\* so whatever was called before, the array a two-input operation returns
\* has the broadcast of the two inputs' shapes.
C24_ScratchShapeIsPerCall ==
    (call.kind = "ufunc2" /\ HasHandler(call.op))
      => LET s0 == Coerce(In0, In1).shape
             s1 == Coerce(In1, In0).shape
         IN  /\ self.bshape = IF s0 # s1 /\ BroadcastOK(s0, s1)
                               THEN Some(BroadcastShape(s0, s1))
                               ELSE None
             /\ out.kind = "array" => out.shape = BroadcastShape(s0, s1)

\* [1, 2, 3] op an equal-shape input: nothing is left in the scratch value
C24_Witness ==
    /\ call.kind = "ufunc2"
    /\ call.op = "multiply"
    /\ self.shape = <<3>>
    /\ call.other.cls = "scalar"
    /\ self.bshape = None
    /\ out.kind = "array"
    /\ out.shape = <<3>>

\* C25: on a 0-dimensional array isfinite returns the is-infinite test of
\* the sole element, not the finiteness test it applies element by element
\* to an array of one or more dimensions.
C25_ZeroDimIsFiniteTestsInfinity ==
    (call.kind = "ufunc1" /\ call.op = "isfinite")
      => /\ self.shape = <<>> => out = Bare(Bool(isinf(self.items[1])))
         /\ self.shape # <<>>
              => /\ out.kind = "array"
                 /\ \A i \in 1..Size(self.shape) :
                        out.items[i]
                            = Bool(~(isnan(self.items[i]) \/ isinf(self.items[i])))

\* isfinite of the 0-dimensional array holding 1 is False
C25_Witness ==
    /\ call.op = "isfinite"
    /\ self.shape = <<>>
    /\ self.items = <<Num(1)>>
    /\ out = Bare(Bool(FALSE))

\* C26: arctan2 of two equal-shape inputs (y, x) has atan2(y[i], x[i]) as
\* element i whichever input dispatches, also when only the second input
\* is an UncertainArray.
C26_Arctan2KeepsOperandOrder ==
    (call.kind = "ufunc2" /\ call.op = "arctan2"
        /\ Coerce(In0, In1).shape = Coerce(In1, In0).shape)
      => /\ out.kind \in {"bare", "array"}
         /\ \A i \in 1..Size(BothShape) :
                out.items[i] = App("atan2", <<Left[i], Right[i]>>)

\* C27: a 0-dimensional dispatching array with an array of one or more
\* dimensions as the other operand: the arithmetic operation succeeds and
\* returns an array of the other operand's shape.
C27_ZeroDimDispatcherBroadcasts ==
    (call.kind = "ufunc2" /\ call.op \in Arithmetic /\ self.shape = <<>>
        /\ OtherIsArray /\ call.other.shape # <<>>)
      => /\ out.kind = "array"
         /\ out.shape = call.other.shape

\* C28: maximum and minimum on the 0-dimensional path return for a pair
\* (a, b) the element the loop body selects for that pair, NaN included.
C28_ExtremumPathsAgree ==
    (call.kind = "ufunc2" /\ call.op \in {"maximum", "minimum"}
        /\ self.shape = <<>> /\ call.other.shape = <<>>)
      => out = Bare(ElementExtremum(call.op, In0.items[1], In1.items[1]))

\* C22 as stated: each of the seven accessors exists as an attribute and as
\* a callable, and the callable invoked with no element kind returns what
\* the attribute returns.
C22_AttributeEqualsCallable ==
    /\ call.kind = "attribute" => out = Accessor(self, AttributeCalls(call.op), "object")
    /\ (call.kind = "called" /\ call.dtype = "object")
          => out = Accessor(self, call.op, "object")

\* C22 as the code has it: value, uncertainty, variance and dof are
\* callables taking an optional element kind, and the attributes x, u, v
\* and df return what they return when invoked with none; real, imag and r
\* are attributes only, and using one as a callable raises TypeError.
C22_FourCallablesThreeProperties ==
    /\ call.kind = "attribute" => out = Accessor(self, AttributeCalls(call.op), "object")
    /\ call.kind = "called" => out = Raised("TypeError")

\* uarray([ureal(0, 1)]).u is an object array holding 1
C22_Witness ==
    /\ call.kind = "attribute"
    /\ call.op = "u"
    /\ self.items = <<UReal(0, 1)>>
    /\ out.kind = "array"
    /\ out.dtype = "object"
    /\ out.items = <<Num(1)>>

\* |a - b| > EPSILON for two numbers, nan and inf included: a difference
\* that is not a number exceeds nothing, an infinite one exceeds
\* everything
Apart(a, b) ==
    IF a.c = "fin" /\ b.c = "fin"
    THEN Abs(a.x - b.x) > EPSILON
    ELSE a.c # "nan" /\ b.c # "nan" /\ a.c # b.c

Opposite(a) ==
    CASE a.c = "fin" -> Num(0 - a.x)
      [] a.c = "inf" -> NegInf
      [] a.c = "ninf" -> Inf
      [] OTHER -> a

FourNumbers(seq) ==
    \/ seq.cls = "ndarray" /\ seq.shape = <<2, 2>>
    \/ seq.cls = "list" /\ Len(seq.items) = 4

\* C23: seq_to_complex raises RuntimeError for an array whose shape is not
\* (2, 2), for another sequence whose length is not 4, for an argument that
\* is neither, and for four numbers (a, b, c, d) with |a - d| > EPSILON or
\* |b + c| > EPSILON; otherwise it returns complex(a, c); and
\* seq_to_complex(complex_to_seq(z)) returns complex(z).
C23_SeqToComplexInvertsComplexToSeq ==
    /\ (call.op = "seq_to_complex" /\ ~Idle) =>
          LET seq == call.other
              a == seq.items[1]
              b == seq.items[2]
              c == seq.items[3]
              d == seq.items[4]
          IN  IF ~FourNumbers(seq)
              THEN out = Raised("RuntimeError")
              ELSE IF Apart(a, d) \/ Apart(b, Opposite(c))
              THEN out = Raised("RuntimeError")
              ELSE out = Bare(Complex(a, c))
    /\ (call.op = "round_trip" /\ ~Idle) =>
          LET z == call.other.items[1]
          IN  out = Bare(IF z.t = "complex" THEN z ELSE Complex(z, Num(0)))

\* seq_to_complex([1, 0, 1, 0]) is within the tolerance and returns 1+1j
C23_Witness ==
    /\ call.op = "seq_to_complex"
    /\ call.other.cls = "list"
    /\ call.other.items = <<Num(EPSILON), Num(0), Num(EPSILON), Num(0)>>
    /\ out = Bare(Complex(Num(EPSILON), Num(EPSILON)))
====
